---- MODULE Spec2Model ----
(***************************************************************************)
(* Model of crashreporter.CrashReporter: the on-disk store of offline      *)
(* reports, the foreground context manager (__enter__/__exit__) and the    *)
(* background watcher thread that retries delivery.                        *)
(*                                                                         *)
(* File names are sequences of characters, so that the formatting of a     *)
(* name (report_template % n), the sorting of a directory listing and the  *)
(* parsing of an ordinal out of a name (int(report[-2:])) are computed as  *)
(* the code computes them.                                                 *)
(***************************************************************************)
EXTENDS Integers, Sequences, FiniteSets, TLC

\* ------------------------------------------------------------------ bounds
ReportLimit == 2
MaxCrashes == 2
MaxThreads == 1

\* ------------------------------------------------- characters and strings
DigitChars == <<"0", "1", "2", "3", "4", "5", "6", "7", "8", "9">>

\* the characters that occur in the name of a report file
Chars == {DigitChars[i] : i \in 1..10}
           \cup {".", "a", "c", "e", "h", "o", "p", "r", "s", "t", "x"}

\* the ASCII code of each character, by which Python compares strings
OrdTable ==
    [c \in Chars |->
        IF \E i \in 1..10 : DigitChars[i] = c
        THEN 47 + (CHOOSE i \in 1..10 : DigitChars[i] = c)
        ELSE CASE c = "." -> 46
               [] c = "a" -> 97
               [] c = "c" -> 99
               [] c = "e" -> 101
               [] c = "h" -> 104
               [] c = "o" -> 111
               [] c = "p" -> 112
               [] c = "r" -> 114
               [] c = "s" -> 115
               [] c = "t" -> 116
               [] c = "x" -> 120]

Ord(c) == OrdTable[c]

IsDigit(c) == Ord(c) >= 48 /\ Ord(c) <= 57

DigitVal(c) == Ord(c) - 48

\* decimal digits of n >= 0, most significant first
RECURSIVE Decimal(_)
Decimal(n) ==
    IF n < 10 THEN <<DigitChars[n + 1]>>
    ELSE Decimal(n \div 10) \o <<DigitChars[(n % 10) + 1]>>

\* "%02d" % n
Fmt02d(n) == IF n < 10 THEN <<"0">> \o Decimal(n) ELSE Decimal(n)

ReportPrefix == <<"c", "r", "a", "s", "h", "r", "e", "p", "o", "r", "t">>

ReportSuffix == <<".", "t", "x", "t">>

\* report_template % n
report_template(n) == ReportPrefix \o Fmt02d(n) \o ReportSuffix

\* mutant: the two characters before the extension, s[-6:-4]
Last2_stem(s) ==
    IF Len(s) <= 5 THEN s ELSE SubSeq(s, Len(s) - 5, Len(s) - 4)

\* s[-2:]
Last2(s) == IF Len(s) <= 2 THEN s ELSE SubSeq(s, Len(s) - 1, Len(s))

\* int(s) for the strings that occur here: ok = FALSE is ValueError
ParseInt(s) ==
    IF s # <<>> /\ \A i \in 1..Len(s) : IsDigit(s[i])
    THEN [ok |-> TRUE,
          val |-> IF Len(s) = 1 THEN DigitVal(s[1])
                  ELSE 10 * DigitVal(s[1]) + DigitVal(s[2])]
    ELSE [ok |-> FALSE, val |-> 0]

\* string comparison a < b, as sorted() compares str
RECURSIVE StrLess(_, _)
StrLess(a, b) ==
    IF b = <<>> THEN FALSE
    ELSE IF a = <<>> THEN TRUE
    ELSE IF Ord(Head(a)) # Ord(Head(b)) THEN Ord(Head(a)) < Ord(Head(b))
    ELSE StrLess(Tail(a), Tail(b))

\* sorted(S) for a set of strings
RECURSIVE Sorted(_)
Sorted(S) ==
    IF S = {} THEN <<>>
    ELSE LET m == CHOOSE x \in S : \A y \in S \ {x} : StrLess(x, y)
         IN  <<m>> \o Sorted(S \ {m})

\* glob pattern "crashreport*"
GlobMatch(name) ==
    /\ Len(name) >= Len(ReportPrefix)
    /\ SubSeq(name, 1, Len(ReportPrefix)) = ReportPrefix

\* _get_offline_reports() on a directory dir (a function name -> content)
GetOfflineReports(dir) == Sorted({name \in DOMAIN dir : GlobMatch(name)})

RECURSIVE Reversed(_)
Reversed(s) == IF s = <<>> THEN <<>> ELSE Reversed(Tail(s)) \o <<Head(s)>>


\* ------------------------------------------------ file operations on a store
CopyOp(src, dst) == [op |-> "copy", src |-> src, dst |-> dst]

RemoveOp(name) == [op |-> "remove", src |-> name, dst |-> <<>>]

WriteOp(name) == [op |-> "write", src |-> <<>>, dst |-> name]

RaiseOp == [op |-> "raise", src |-> <<>>, dst |-> <<>>]

\* the for loop of _save_report over reversed(offline_reports): parse the
\* ordinal out of each name and copy the report to the next ordinal; a name
\* that does not parse ends the loop (and the call) with ValueError
RECURSIVE ShiftOps(_)
ShiftOps(rev) ==
    IF rev = <<>> THEN <<>>
    ELSE LET n == ParseInt(Last2(Head(rev)))
         IN  IF ~n.ok THEN <<RaiseOp>>
             ELSE <<CopyOp(Head(rev), report_template(n.val + 1))>>
                  \o ShiftOps(Tail(rev))

Raises(ops) == ops # <<>> /\ ops[Len(ops)].op = "raise"

\* mutant: the new report is written one ordinal too high
new_report_path_second == report_template(2)

\* new_report_path of _save_report
new_report_path == report_template(1)

\* mutant: the new report goes to the first free ordinal, nothing is
\* shifted and nothing evicted
SaveOps_append(offline_reports, lim) ==
    <<WriteOp(report_template(Len(offline_reports) + 1))>>

\* the file operations _save_report performs, in order, given the listing it
\* took on entry
SaveOps(offline_reports, lim) ==
    IF offline_reports = <<>> THEN <<WriteOp(new_report_path)>>
    ELSE LET shifts == ShiftOps(Reversed(offline_reports))
         IN  IF Raises(shifts) THEN shifts
             ELSE shifts
                  \o <<RemoveOp(offline_reports[1])>>
                  \o (IF Len(offline_reports) >= lim
                      THEN <<RemoveOp(report_template(lim + 1))>>
                      ELSE <<>>)
                  \o <<WriteOp(new_report_path)>>

\* mutant: the loop of delete_offline_reports stops after the first report
DeleteOps_first(offline_reports) ==
    <<RemoveOp(offline_reports[1])>>

\* the file operations delete_offline_reports performs given its listing
DeleteOps(offline_reports) ==
    [i \in 1..Len(offline_reports) |-> RemoveOp(offline_reports[i])]

\* one file operation on directory dir; ok = FALSE when it raises
\* (ValueError for "raise", IOError/OSError for a missing file)
ApplyOp(dir, o, content) ==
    CASE o.op = "copy" ->
           IF o.src \in DOMAIN dir
           THEN [ok |-> TRUE, dir |-> (o.dst :> dir[o.src]) @@ dir]
           ELSE [ok |-> FALSE, dir |-> dir]
      [] o.op = "remove" ->
           IF o.src \in DOMAIN dir
           THEN [ok |-> TRUE,
                 dir |-> [x \in (DOMAIN dir) \ {o.src} |-> dir[x]]]
           ELSE [ok |-> FALSE, dir |-> dir]
      [] o.op = "write" ->
           [ok |-> TRUE, dir |-> (o.dst :> content) @@ dir]
      [] OTHER -> [ok |-> FALSE, dir |-> dir]


\* ---------------------------------------------------------------- the state
VARIABLES
    files,            \* report_dir: file name -> content of the report
    limit,            \* self.offline_report_limit
    smtp,             \* self._smtp is not None
    ftp,              \* self._ftp is not None
    enabled,          \* self._enabled
    watcher,          \* self._watcher: 0 is None, else the last Thread created
    watcher_enabled,  \* self._watcher_enabled
    th,               \* the watcher threads created so far
    nthreads,         \* how many Thread objects start_watcher has created
    inScope,          \* the main program is inside "with reporter:"
    fg,               \* the foreground call in progress
    crashes,          \* failures captured so far (names the report contents)
    disabledAt,       \* history: -1, or the number of threads created when
                      \* the user called disable() (no enable() since)
    stopAt,           \* history: the number of threads created when
                      \* disable() or stop_watcher() was last called
    cap               \* how many Thread objects the run may create

vars == <<files, limit, smtp, ftp, enabled, watcher, watcher_enabled, th,
          nthreads, inScope, fg, crashes, disabledAt, stopAt, cap>>

Threads == 1..(MaxThreads + 1)

EmptyDir == [x \in {} |-> 0]

\* a directory left by earlier runs: n reports at ordinals 1..n
\* (the report at ordinal k has content -k)
DirWith(n) == [name \in {report_template(k) : k \in 1..n} |->
                 -(CHOOSE k \in 1..n : report_template(k) = name)]

\* pc: where the thread is in _watcher_thread; gs: its great_success;
\* todo: the os.remove calls left of its purge; purges: calls of
\* delete_offline_reports made; sent: the reports (by content) its
\* successful bulk sends included
NoThread == [pc |-> "none", gs |-> FALSE, todo |-> <<>>, purges |-> 0,
             sent |-> {}]

\* the state of a Thread right after Thread.start(): in _watcher_thread,
\* great_success = False, about to sleep
NewThread == [NoThread EXCEPT !.pc = "sleep"]

\* op: the call in progress ("exit": __exit__ has tried the live channels,
\* "save": _save_report, "delete": delete_offline_reports, "return": the
\* call made by the program is over and control goes back to it);
\* gs: great_success of __exit__; tried: the live channels it attempted;
\* plan: the file operations still to perform; calls: what __exit__ still
\* calls; content: the report body; pre: the directory as the call listed it;
\* call: the method the program called; etype: __exit__ was passed an
\* exception; logged: it logged 'No crashes detected'; raised: the call ends
\* with an exception of its own
IdleFg == [op |-> "idle", gs |-> FALSE, tried |-> {}, plan |-> <<>>,
           calls |-> <<>>, content |-> 0, pre |-> EmptyDir, call |-> "",
           etype |-> FALSE, logged |-> FALSE, raised |-> FALSE]

\* the call in progress f is over; r: it raises. Of a call that reached
\* _save_report the listing it took stays on record in pre
Return(f, r) == [f EXCEPT !.op = "return", !.raised = r, !.plan = <<>>,
                          !.calls = <<>>, !.gs = FALSE, !.content = 0,
                          !.pre = IF f.op = "save" THEN @ ELSE EmptyDir]

Active(t) == th[t].pc \notin {"none", "done", "crashed"}

ActiveThreads == {t \in Threads : Active(t)}

\* mutant: the watcher is started without looking at the report directory
StartWatcher_always(dir, w, we, threads, n, c) ==
    IF n < c
    THEN [watcher |-> n + 1, watcher_enabled |-> TRUE,
          th |-> [threads EXCEPT ![n + 1] = NewThread], nthreads |-> n + 1]
    ELSE [watcher |-> w, watcher_enabled |-> we, th |-> threads, nthreads |-> n]

\* start_watcher(), as a function of the state it reads: the new values of
\* _watcher, _watcher_enabled, the threads and their number
StartWatcher(dir, w, we, threads, n, c) ==
    IF GetOfflineReports(dir) # <<>> /\ n < c
    THEN [watcher |-> n + 1, watcher_enabled |-> TRUE,
          th |-> [threads EXCEPT ![n + 1] = NewThread], nthreads |-> n + 1]
    ELSE [watcher |-> w, watcher_enabled |-> we, th |-> threads, nthreads |-> n]

\* stop_watcher(): the new value of _watcher_enabled
StopWatcher(w, we) == IF w # 0 THEN FALSE ELSE we

\* __init__(report_dir, offline_report_limit = ReportLimit) with a
\* report_dir that holds n reports (n = 0 also stands for a directory that
\* did not exist and was created); c is the value of cap
Construct(c) ==
    \E lim \in {ReportLimit} : \E n \in 0..lim :
       LET sw == StartWatcher(DirWith(n), 0, FALSE,
                              [t \in Threads |-> NoThread], 0, c)
       IN  /\ cap = c
           /\ limit = lim
           /\ smtp = FALSE
           /\ ftp = FALSE
           /\ enabled = TRUE
           /\ inScope = FALSE
           /\ crashes = 0
           /\ disabledAt = -1
           /\ stopAt = 0
           /\ fg = IdleFg
           /\ files = DirWith(n)
           /\ watcher = sw.watcher
           /\ watcher_enabled = sw.watcher_enabled
           /\ th = sw.th
           /\ nthreads = sw.nthreads

Init == Construct(MaxThreads)

\* ------------------------------------------- the foreground: plain calls
Idle == fg.op = "idle"

setup_smtp ==
    /\ Idle /\ ~smtp
    /\ smtp' = TRUE
    /\ UNCHANGED <<files, limit, ftp, enabled, watcher, watcher_enabled, th,
                   nthreads, inScope, fg, crashes, disabledAt, stopAt, cap>>

setup_ftp ==
    /\ Idle /\ ~ftp
    /\ ftp' = TRUE
    /\ UNCHANGED <<files, limit, smtp, enabled, watcher, watcher_enabled, th,
                   nthreads, inScope, fg, crashes, disabledAt, stopAt, cap>>

enable ==
    /\ Idle
    /\ enabled' = TRUE
    /\ disabledAt' = -1
    /\ UNCHANGED <<files, limit, smtp, ftp, watcher, watcher_enabled, th,
                   nthreads, inScope, fg, crashes, stopAt, cap>>

disable ==
    /\ Idle
    /\ enabled' = FALSE
    /\ watcher_enabled' = StopWatcher(watcher, watcher_enabled)
    /\ disabledAt' = nthreads
    /\ stopAt' = nthreads
    /\ UNCHANGED <<files, limit, smtp, ftp, watcher, th, nthreads, inScope, fg,
                   crashes, cap>>

start_watcher ==
    /\ Idle
    /\ LET sw == StartWatcher(files, watcher, watcher_enabled, th, nthreads, cap)
       IN  /\ watcher' = sw.watcher
           /\ watcher_enabled' = sw.watcher_enabled
           /\ th' = sw.th
           /\ nthreads' = sw.nthreads
    /\ UNCHANGED <<files, limit, smtp, ftp, enabled, inScope, fg, crashes,
                   disabledAt, stopAt, cap>>

stop_watcher ==
    /\ Idle
    /\ watcher_enabled' = StopWatcher(watcher, watcher_enabled)
    /\ stopAt' = nthreads
    /\ UNCHANGED <<files, limit, smtp, ftp, enabled, watcher, th, nthreads,
                   inScope, fg, crashes, disabledAt, cap>>

\* __enter__: self.enable()
enter ==
    /\ Idle /\ ~inScope
    /\ inScope' = TRUE
    /\ enabled' = TRUE
    /\ UNCHANGED <<files, limit, smtp, ftp, watcher, watcher_enabled, th,
                   nthreads, fg, crashes, disabledAt, stopAt, cap>>

\* ------------------------------------------------ the foreground: __exit__
\* mutant: __exit__ also starts the watcher after saving
ExitCalls_start(great_success) ==
    IF ~great_success THEN <<"_save_report", "start_watcher">> ELSE <<>>

\* what __exit__ calls once the live channels have been tried
ExitCalls(great_success) ==
    IF ~great_success THEN <<"_save_report">> ELSE <<>>

\* mutant: the failure is handled whether or not there is one
Handles_always(en, etype) == en

\* "if self._enabled: if etype:", the test under which __exit__ handles a
\* failure
Handles(en, etype) == en /\ etype

\* the else branch of "if self._enabled:" logs 'No crashes detected'
LogsNoCrash(en, etype) == ~en

\* the outcomes of _ftp_submit: it succeeds, or connect/login fails (caught:
\* the watcher is told to stop and False returned), or the transfer after the
\* login raises (not caught); "skip" when no FTP is set up
FtpOutcomes(configured) ==
    IF configured THEN {"ok", "connect_fail", "error"} ELSE {"skip"}

\* the outcomes of _sendmail: True, or an error caught and False returned
MailOutcomes(configured) ==
    IF configured THEN {"ok", "fail"} ELSE {"skip"}

\* __exit__(etype, evalue, tb) up to the last live channel: the channels are
\* tried in turn (they touch nothing the watcher reads but the flag that
\* stop_watcher clears); an error _ftp_submit does not catch ends the call
exit ==
    /\ Idle /\ inScope
    /\ inScope' = FALSE
    /\ \E etype \in BOOLEAN :
         IF Handles(enabled, etype)
         THEN /\ crashes < MaxCrashes
              /\ crashes' = crashes + 1
              /\ \E mail \in MailOutcomes(smtp), up \in FtpOutcomes(ftp) :
                   LET f == [IdleFg EXCEPT
                               !.op = "exit",
                               !.call = "__exit__",
                               !.etype = etype,
                               !.gs = (mail = "ok") \/ (up = "ok"),
                               !.tried = {c \in {"smtp"} : smtp}
                                           \cup {c \in {"ftp"} : ftp},
                               !.content = crashes + 1]
                   IN  /\ watcher_enabled' =
                            IF up = "connect_fail"
                            THEN StopWatcher(watcher, watcher_enabled)
                            ELSE watcher_enabled
                       /\ fg' = IF up = "error" THEN Return(f, TRUE) ELSE f
         ELSE /\ crashes' = crashes
              /\ watcher_enabled' = watcher_enabled
              /\ fg' = Return([IdleFg EXCEPT
                                 !.call = "__exit__",
                                 !.etype = etype,
                                 !.logged = LogsNoCrash(enabled, etype)],
                              FALSE)
    /\ UNCHANGED <<files, limit, smtp, ftp, enabled, watcher, th, nthreads,
                   disabledAt, stopAt, cap>>

\* __exit__ after the live channels: "if not great_success:
\* self._save_report()", which starts by taking its listing
exit_after_channels ==
    /\ fg.op = "exit"
    /\ LET calls == ExitCalls(fg.gs)
       IN  fg' = IF calls = <<>> THEN Return(fg, FALSE)
                 ELSE [fg EXCEPT !.op = "save",
                                 !.plan = SaveOps(GetOfflineReports(files), limit),
                                 !.calls = calls,
                                 !.pre = files]
    /\ UNCHANGED <<files, limit, smtp, ftp, enabled, watcher, watcher_enabled,
                   th, nthreads, inScope, crashes, disabledAt, stopAt,
                   cap>>

\* delete_offline_reports() called by the program: takes its listing
delete_offline_reports ==
    /\ Idle
    /\ LET l == GetOfflineReports(files)
       IN  fg' = IF l = <<>>
                 THEN Return([IdleFg EXCEPT !.call = "delete_offline_reports"],
                             FALSE)
                 ELSE [IdleFg EXCEPT !.op = "delete",
                                     !.call = "delete_offline_reports",
                                     !.plan = DeleteOps(l),
                                     !.pre = files]
    /\ UNCHANGED <<files, limit, smtp, ftp, enabled, watcher, watcher_enabled,
                   th, nthreads, inScope, crashes, disabledAt, stopAt, cap>>

\* one file operation of the foreground call in progress (_save_report or
\* delete_offline_reports); an operation that raises ends the call, and so
\* does the last one, after which __exit__ makes the calls it has left
fg_file_op ==
    /\ fg.op \in {"save", "delete"}
    /\ LET a == ApplyOp(files, Head(fg.plan), fg.content)
           last == Len(fg.plan) = 1
           sw == IF a.ok /\ last /\ Len(fg.calls) > 1
                 THEN StartWatcher(a.dir, watcher, watcher_enabled, th, nthreads,
                                   cap)
                 ELSE [watcher |-> watcher, watcher_enabled |-> watcher_enabled,
                       th |-> th, nthreads |-> nthreads]
       IN  /\ files' = a.dir
           /\ fg' = IF a.ok /\ ~last THEN [fg EXCEPT !.plan = Tail(@)]
                    ELSE Return(fg, ~a.ok)
           /\ watcher' = sw.watcher
           /\ watcher_enabled' = sw.watcher_enabled
           /\ th' = sw.th
           /\ nthreads' = sw.nthreads
    /\ UNCHANGED <<limit, smtp, ftp, enabled, inScope, crashes, disabledAt, stopAt, cap>>

\* the call is over: __exit__ or delete_offline_reports returns to the
\* program (or its exception propagates into it)
fg_return ==
    /\ fg.op = "return"
    /\ fg' = IdleFg
    /\ UNCHANGED <<files, limit, smtp, ftp, enabled, watcher, watcher_enabled,
                   th, nthreads, inScope, crashes, disabledAt, stopAt,
                   cap>>

\* ------------------------------------------------------ the watcher thread
\* mutant: the purge is not guarded by great_success
AfterLoop_always(great_success) == "purge"

\* after the while loop of _watcher_thread: purge on success, then return
AfterLoop(great_success) == IF great_success THEN "purge" ELSE "done"

\* the loop test "while not great_success"
LoopTest(great_success) ==
    IF ~great_success THEN "sleep" ELSE AfterLoop(great_success)

\* thread record r at the end of one pass of the loop body
EndCycle(r, gs) == [r EXCEPT !.pc = LoopTest(gs), !.gs = gs]

\* an exception nothing catches ends the thread
Crashed(r) == [r EXCEPT !.pc = "crashed", !.todo = <<>>, !.sent = {}]

\* the thread returns from _watcher_thread
Finished(r) == [r EXCEPT !.pc = "done", !.todo = <<>>, !.sent = {}]

\* the reports a bulk send reads: every report listed, by content
Reports(dir) == {dir[name] : name \in {n \in DOMAIN dir : GlobMatch(n)}}

\* thread record r after a bulk send over dir that returned ok
Delivered(r, dir, ok) ==
    [r EXCEPT !.sent = IF ok THEN @ \cup Reports(dir) ELSE @]

\* time.sleep returns and the flag is tested
watcher_wake(t) ==
    /\ th[t].pc = "sleep"
    /\ IF ~watcher_enabled
       THEN th' = [th EXCEPT ![t] =
                     IF AfterLoop(@.gs) = "done" THEN Finished(@)
                     ELSE [@ EXCEPT !.pc = AfterLoop(@.gs)]]
       ELSE th' = [th EXCEPT ![t].pc = "attempt"]
    /\ UNCHANGED <<files, limit, smtp, ftp, enabled, watcher, watcher_enabled,
                   nthreads, inScope, fg, crashes, disabledAt, stopAt, cap>>

\* 'Attempting to send offline reports': the configured channels are looked up
watcher_attempt(t) ==
    /\ th[t].pc = "attempt"
    /\ th' = [th EXCEPT ![t] =
                IF smtp THEN [@ EXCEPT !.pc = "smtp"]
                ELSE IF ftp THEN [@ EXCEPT !.pc = "ftp"]
                ELSE EndCycle(@, @.gs)]
    /\ UNCHANGED <<files, limit, smtp, ftp, enabled, watcher, watcher_enabled,
                   nthreads, inScope, fg, crashes, disabledAt, stopAt,
                   cap>>

\* great_success |= self._smtp_send_offline_reports(): on an empty listing
\* the call returns None and "|=" raises TypeError in the thread; otherwise
\* the reports are read and mailed in one message, and _sendmail returns
\* True or False
watcher_smtp(t) ==
    /\ th[t].pc = "smtp"
    /\ IF GetOfflineReports(files) = <<>>
       THEN th' = [th EXCEPT ![t] = Crashed(@)]
       ELSE \E sent \in BOOLEAN :
              LET r == Delivered(th[t], files, sent)
              IN  th' = [th EXCEPT ![t] =
                           IF ftp THEN [r EXCEPT !.pc = "ftp", !.gs = @ \/ sent]
                           ELSE EndCycle(r, r.gs \/ sent)]
    /\ UNCHANGED <<files, limit, smtp, ftp, enabled, watcher, watcher_enabled,
                   nthreads, inScope, fg, crashes, disabledAt, stopAt, cap>>

\* great_success |= self._ftp_send_offline_reports(): connect/login fails
\* (caught, False), or cwd or a transfer raises (not caught), or every listed
\* report is uploaded (True; with nothing listed no transfer can fail)
watcher_ftp(t) ==
    /\ th[t].pc = "ftp"
    /\ \E outcome \in {"ok", "connect_fail", "error"} :
         th' = [th EXCEPT ![t] =
                  CASE outcome = "ok" ->
                         EndCycle(Delivered(@, files, TRUE), TRUE)
                    [] outcome = "connect_fail" -> EndCycle(@, @.gs)
                    [] OTHER -> Crashed(@)]
    /\ UNCHANGED <<files, limit, smtp, ftp, enabled, watcher, watcher_enabled,
                   nthreads, inScope, fg, crashes, disabledAt, stopAt, cap>>

\* delete_offline_reports() called by the thread: takes its listing
watcher_purge_list(t) ==
    /\ th[t].pc = "purge"
    /\ LET l == GetOfflineReports(files)
       IN  th' = [th EXCEPT ![t] =
                    IF l = <<>> THEN Finished([@ EXCEPT !.purges = @ + 1])
                    ELSE [@ EXCEPT !.purges = @ + 1,
                                   !.todo = DeleteOps(l),
                                   !.pc = "purge_ops"]]
    /\ UNCHANGED <<files, limit, smtp, ftp, enabled, watcher, watcher_enabled,
                   nthreads, inScope, fg, crashes, disabledAt, stopAt, cap>>

\* one os.remove of the thread's purge; a report removed meanwhile raises
\* OSError in the thread
watcher_purge_op(t) ==
    /\ th[t].pc = "purge_ops"
    /\ LET a == ApplyOp(files, Head(th[t].todo), 0)
       IN  /\ files' = a.dir
           /\ th' = [th EXCEPT ![t] =
                       IF ~a.ok THEN Crashed(@)
                       ELSE IF Len(th[t].todo) > 1
                            THEN [@ EXCEPT !.todo = Tail(@)]
                            ELSE Finished(@)]
    /\ UNCHANGED <<limit, smtp, ftp, enabled, watcher, watcher_enabled,
                   nthreads, inScope, fg, crashes, disabledAt, stopAt, cap>>

\* ------------------------------------------------------- the specification
Next ==
    \/ setup_smtp
    \/ setup_ftp
    \/ enable
    \/ disable
    \/ start_watcher
    \/ stop_watcher
    \/ enter
    \/ exit
    \/ exit_after_channels
    \/ delete_offline_reports
    \/ fg_file_op
    \/ fg_return
    \/ \E t \in Threads : watcher_wake(t)
    \/ \E t \in Threads : watcher_attempt(t)
    \/ \E t \in Threads : watcher_smtp(t)
    \/ \E t \in Threads : watcher_ftp(t)
    \/ \E t \in Threads : watcher_purge_list(t)
    \/ \E t \in Threads : watcher_purge_op(t)

Spec == Init /\ [][Next]_vars

\* the same program when start_watcher may create one more Thread
SpecRace == Construct(MaxThreads + 1) /\ [][Next]_vars

\* the reporter once stop_watcher() has been called after construction and
\* the watcher, if one was started, has woken up and returned: only the
\* program's own thread is left
InitSeq ==
    \E lim \in {ReportLimit} : \E n \in 0..lim :
       LET sw == StartWatcher(DirWith(n), 0, FALSE,
                              [t \in Threads |-> NoThread], 0, MaxThreads)
       IN  /\ cap = sw.nthreads
           /\ files = DirWith(n)
           /\ limit = lim
           /\ smtp = FALSE
           /\ ftp = FALSE
           /\ enabled = TRUE
           /\ watcher = sw.watcher
           /\ watcher_enabled = StopWatcher(sw.watcher, sw.watcher_enabled)
           /\ th = [t \in Threads |->
                     IF sw.th[t].pc = "sleep" THEN Finished(sw.th[t])
                     ELSE sw.th[t]]
           /\ nthreads = sw.nthreads
           /\ inScope = FALSE
           /\ fg = IdleFg
           /\ crashes = 0
           /\ disabledAt = -1
           /\ stopAt = sw.nthreads

\* the calls of the program, start_watcher() excepted
NextSeq ==
    \/ setup_smtp
    \/ setup_ftp
    \/ enable
    \/ disable
    \/ stop_watcher
    \/ enter
    \/ exit
    \/ exit_after_channels
    \/ delete_offline_reports
    \/ fg_file_op
    \/ fg_return

\* the program alone, no watcher thread alive
SpecSeq == InitSeq /\ [][NextSeq]_vars


\* ------------------------------------------------------------------ claims
Listing == GetOfflineReports(files)

\* the names of the ordinals 1..n
Ordinals(n) == {report_template(k) : k \in 1..n}

\* no foreground call and no purge of a watcher is under way
Quiescent == Idle /\ \A t \in Threads : th[t].pc # "purge_ops"

\* the report of the failure being handled is in the store at ordinal 1
Written(dir, f) ==
    new_report_path \in DOMAIN dir /\ dir[new_report_path] = f.content

\* C1: after any sequence of saves the number of reports listed in the store
\* never exceeds offline_report_limit
C1_BoundedStore == Idle => Len(Listing) <= limit

\* two failures went to _save_report (no channel is set up), the second one
\* with the store at its limit
C1_Witness ==
    /\ Idle /\ ~smtp /\ ~ftp /\ disabledAt = -1
    /\ crashes >= 2
    /\ Len(Listing) = limit

\* C2: after any sequence of save and delete_offline_reports calls, each run
\* to completion, the ordinals stored are exactly 1..count
C2_Contiguous ==
    Quiescent => DOMAIN files = Ordinals(Cardinality(DOMAIN files))

\* a watcher has purged the store and a later failure was saved
C2_Witness ==
    /\ Quiescent
    /\ \E t \in Threads : th[t].pc = "done" /\ th[t].purges = 1
    /\ new_report_path \in DOMAIN files /\ files[new_report_path] > 0

Min(a, b) == IF a < b THEN a ELSE b

\* the store post after save(c) on the store pre, as a bounded FIFO
FifoPost(pre, c, post) ==
    /\ new_report_path \in DOMAIN post /\ post[new_report_path] = c
    /\ \A k \in 1..(limit - 1) :
          report_template(k) \in DOMAIN pre =>
             /\ report_template(k + 1) \in DOMAIN post
             /\ post[report_template(k + 1)] = pre[report_template(k)]
    /\ Cardinality(DOMAIN post) = Min(Cardinality(DOMAIN pre) + 1, limit)

\* C3: save is a bounded FIFO indexed by recency: when _save_report returns,
\* ordinal 1 holds the new report, every earlier report has moved up by one
\* ordinal unchanged, and only the oldest of a full store is gone
C3_SaveIsFifo ==
    [][(fg.op = "save" /\ fg'.op = "return")
          => FifoPost(fg.pre, fg.content, files')]_vars

\* __exit__ returns (or raises) in this step
ExitEnds == fg.op \in {"exit", "save"} /\ fg'.op = "return"

\* C4: on scope exit with a failure while enabled, the report is written to
\* the store iff every live channel attempted returned failure; when one
\* succeeded the store is unchanged and no retry scheduler is started
C4_SavedIffAllFailed ==
    [][ExitEnds =>
          /\ Written(files', fg) <=> ~fg.gs
          /\ fg.gs => (files' = files /\ nthreads' = nthreads)]_vars

\* a step of __exit__
ExitStep ==
    \/ inScope /\ ~inScope'
    \/ fg.op \in {"exit", "save"} /\ fg' # fg
    \/ fg.op = "return" /\ fg.call = "__exit__" /\ fg' # fg

\* C5 (as the claim states it): once _save_report has written the report, a
\* retry scheduler is running
C5_RunningAfterSave ==
    [][(fg.op = "save" /\ fg'.op = "return" /\ Written(files', fg))
          => ActiveThreads' # {}]_vars

\* C5 (amended): no step of __exit__ starts a retry scheduler: it creates
\* no thread and never sets the watcher flag, also when all channels failed
\* and the report was saved
C5_ExitStartsNoWatcher ==
    [][ExitStep =>
          /\ nthreads' = nthreads
          /\ th' = th
          /\ watcher_enabled' => watcher_enabled]_vars

\* both channels were set up and failed, the report was saved, and no
\* watcher thread has ever been created
C5_Witness ==
    /\ Idle /\ smtp /\ ftp
    /\ crashes >= 1
    /\ new_report_path \in DOMAIN files /\ files[new_report_path] = crashes
    /\ nthreads = 0

\* C6: at most one retry scheduler task is active at any time
C6_AtMostOneWatcher == Cardinality(ActiveThreads) <= 1

\* C7: a watcher returns from its loop only after an explicit disable() or
\* stop_watcher() made while it existed, or after a successful pass; a
\* failed channel, live or in a pass, does not stop it
C7_StopsOnlyOnDisableOrSuccess ==
    [][\A t \in Threads :
          (Active(t) /\ th'[t].pc = "done") => (t <= stopAt \/ th[t].gs)]_vars

\* C8: a watcher purges only after a pass that succeeded, purges once and
\* empties the store, and starts no pass after that
C8_State ==
    \A t \in Threads :
       /\ th[t].purges <= 1
       /\ (th[t].pc \in {"purge", "purge_ops"} \/ th[t].purges = 1) => th[t].gs
       /\ th[t].gs => th[t].pc \in {"ftp", "purge", "purge_ops", "done", "crashed"}
       /\ (th[t].gs /\ th[t].pc = "done") => th[t].purges = 1

C8_Step ==
    \A t \in Threads :
       /\ (th[t].pc \in {"purge", "purge_ops"} /\ th'[t].pc = "done")
             => files' = EmptyDir
       /\ (th[t].purges = 1 /\ th'[t] # th[t])
             => th'[t].pc \in {"purge_ops", "done", "crashed"}

C8_Convergence == []C8_State /\ [][C8_Step]_vars

\* the one watcher had a pass that succeeded, purged the store and
\* returned, with no disable() or stop_watcher() ever called
C8_Witness ==
    /\ nthreads = 1 /\ th[1].gs /\ stopAt = 0 /\ disabledAt = -1
    /\ th[1].pc = "done" /\ th[1].purges = 1
    /\ files = EmptyDir

\* C9: a watcher that exists when disable() is called stops the next time
\* it wakes from its sleep: it completes at most the pass it is in
C9_StopsAfterDisable ==
    [][\A t \in Threads :
          (t <= disabledAt /\ th[t].pc = "sleep" /\ th'[t].pc # "sleep")
             => th'[t].pc = "done"]_vars

\* C10: after disable() and until the user calls enable(), a scope exit
\* handles no failure: no channel is attempted and nothing is saved
C10_DisabledExitDoesNothing ==
    [][(inScope /\ ~inScope' /\ disabledAt >= 0)
          => (fg'.op = "return" /\ fg'.tried = {} /\ crashes' = crashes
                /\ files' = files)]_vars

\* __exit__ is entered in this step
ExitCalled == inScope /\ ~inScope'

\* C11: a scope exit without a failure attempts no channel and leaves the
\* store, the enabled flag and the watcher (flag, thread object, threads)
\* as they were, and returns at once
C11_CleanExitIsNoOp ==
    [][(ExitCalled /\ ~fg'.etype)
          => /\ fg'.op = "return" /\ fg'.tried = {} /\ ~fg'.raised
             /\ files' = files
             /\ enabled' = enabled
             /\ watcher_enabled' = watcher_enabled
             /\ watcher' = watcher /\ th' = th /\ nthreads' = nthreads
             /\ crashes' = crashes]_vars

\* a scope without a failure has just been left while reporting is enabled,
\* both channels are set up, a report is stored and a watcher is sleeping
C11_Witness ==
    /\ fg.op = "return" /\ fg.call = "__exit__" /\ ~fg.etype
    /\ enabled /\ smtp /\ ftp
    /\ files # EmptyDir
    /\ \E t \in Threads : th[t].pc = "sleep"

\* C12: right after construction the reporter is enabled, and a watcher
\* thread has been started (thread created, flag set) if and only if the
\* report directory already held a report
C12_AfterConstruction ==
    Init =>
       /\ enabled
       /\ IF Listing # <<>>
          THEN /\ nthreads = 1 /\ watcher = 1 /\ watcher_enabled
               /\ ActiveThreads = {1}
          ELSE /\ nthreads = 0 /\ watcher = 0 /\ ~watcher_enabled
               /\ ActiveThreads = {}

\* a reporter just constructed over a directory that holds reports
C12_Witness == Init /\ Len(Listing) = limit /\ nthreads = 1

\* __exit__ is over
ExitReturns == fg.op = "return" /\ fg.call = "__exit__"

\* C13: a scope exit with a failure never ends with an exception of its
\* own, whatever the channels do and whatever the store holds
C13_ExitNeverRaises == (ExitReturns /\ fg.etype) => ~fg.raised

\* delete_offline_reports() is called in this step
DeleteCalled == Idle /\ fg'.call = "delete_offline_reports"

\* delete_offline_reports() ends in this step
DeleteEnds ==
    fg.op # "return" /\ fg'.op = "return" /\ fg'.call = "delete_offline_reports"

\* C14: delete_offline_reports is idempotent: a call, from any store,
\* returns without an error and leaves the store empty, and so does the call
\* that follows it, which finds the store empty and changes nothing
C14_PurgeIdempotent ==
    [][/\ DeleteEnds => (files' = EmptyDir /\ ~fg'.raised)
       /\ (DeleteCalled /\ files = EmptyDir) => (DeleteEnds /\ files' = files)]_vars

\* a call of delete_offline_reports has returned and the store is empty,
\* after the program had stored reports of its own
C14_Witness ==
    /\ fg.op = "return" /\ fg.call = "delete_offline_reports" /\ ~fg.raised
    /\ files = EmptyDir /\ crashes >= 1

\* thread t takes a step
Steps(t) == th'[t] # th[t]

\* C15: in every pass of the watcher that runs, the mail channel, when
\* configured, is attempted first, the file-transfer channel, when
\* configured, is attempted after it whatever the mail attempt gave, and a
\* success once obtained stays (the overall result is the logical OR)
C15_CycleTriesEveryChannel ==
    [][\A t \in Threads :
         /\ (th[t].pc = "attempt" /\ Steps(t)) =>
               th'[t].pc = IF smtp THEN "smtp"
                           ELSE IF ftp THEN "ftp" ELSE LoopTest(th[t].gs)
         /\ (th[t].pc = "smtp" /\ ftp /\ Steps(t)) => th'[t].pc = "ftp"
         /\ (th[t].pc \in {"smtp", "ftp"} /\ Steps(t) /\ th[t].gs) => th'[t].gs]_vars

\* C16: when __exit__ returns, 'No crashes detected' has been logged exactly
\* when the scope ended without a failure
C16_NoCrashMessage == ExitReturns => (fg.logged <=> ~fg.etype)

\* C17: the watcher thread never ends by an exception nothing catches
C17_WatcherNeverCrashes == \A t \in Threads : th[t].pc # "crashed"

\* C18: every report an os.remove of the watcher's purge takes out of the
\* store was read by a bulk send of that watcher that succeeded; a report
\* saved after the send is not removed
C18_PurgeRemovesOnlyDelivered ==
    [][\A t \in Threads :
         (th[t].pc = "purge_ops" /\ Steps(t)) =>
            \A name \in (DOMAIN files) \ (DOMAIN files') :
               files[name] \in th[t].sent]_vars

\* neither _save_report nor delete_offline_reports is between two of its
\* file operations, in the program or in a watcher
NoneUnderWay ==
    fg.op \notin {"save", "delete"} /\ \A t \in Threads : th[t].pc # "purge_ops"

\* C19: a save of the program and a purge of the watcher interleave one file
\* operation at a time; whenever both are over the store lists at most
\* offline_report_limit reports and the i-th report listed has ordinal i
C19_StoreAfterSaveAndPurge ==
    NoneUnderWay =>
       LET l == Listing
       IN  /\ Len(l) <= limit
           /\ \A i \in 1..Len(l) : l[i] = report_template(i)

\* a save and a purge that overlapped are both over: the save took its
\* listing after the purge had removed ordinal 1 and before it removed the
\* rest, and the watcher has returned from its purge
C19_Witness ==
    /\ NoneUnderWay
    /\ fg.op = "return" /\ fg.call = "__exit__"
    /\ fg.pre # EmptyDir /\ new_report_path \notin DOMAIN fg.pre
    /\ \E t \in Threads : th[t].pc = "done" /\ th[t].purges = 1

\* C20: for every ordinal n in 1..offline_report_limit whose file is in the
\* store, the ordinal _save_report parses out of the name written for n is
\* n; and the listing is in ascending order of ordinal
C20_NameRoundTrip ==
    /\ \A n \in 1..limit :
          report_template(n) \in DOMAIN files =>
             ParseInt(Last2(report_template(n))) = [ok |-> TRUE, val |-> n]
    /\ \A i, j \in 1..Len(Listing) :
          i < j => \E a, b \in 1..(limit + 1) :
                     /\ Listing[i] = report_template(a)
                     /\ Listing[j] = report_template(b)
                     /\ a < b

====
